---- MODULE Spec2Model ----
(***************************************************************************)
(* Model of the fastify-backend user flows: the zod pre-validation hooks,  *)
(* the UserController handlers (sign-up, sign-in, send-email, detail), the *)
(* AuthMiddleware and the JWT / OTP / password helpers of src/utils.       *)
(*                                                                         *)
(* JavaScript strings are sequences of one-character strings, so that     *)
(* length tests, regular expressions, startsWith and split are computed.   *)
(* An optional value (undefined | v) is the sequence <<>> or <<v>>.        *)
(* Every `await` on the store is one atomic step of a request; requests    *)
(* in different slots interleave freely between their steps.               *)
(***************************************************************************)
EXTENDS Integers, Sequences, FiniteSets, Bags, TLC

VARIABLES
  usersTable,   \* rows of table "user", in insertion order; id = position
  otpTable,     \* rows of table "otp" as a bag of [email, code, isUsed]
  req,          \* the requests in flight, one per slot
  now,          \* wall clock, in days
  SECRET,       \* the signing key computed when src/utils is imported
  proc,         \* the server process: where its start-up is, and process.env
  envFile,      \* the .env file in the working directory
  sh,           \* the shell running one of the scripts: its position and variables
  compose       \* the services of docker-compose.yml as docker reports them

vars == <<usersTable, otpTable, req, now, SECRET, proc, envFile, sh, compose>>

-----------------------------------------------------------------------------
(* Bounds of the model.                                                    *)

MaxReq == 2          \* request slots: requests handled concurrently
MaxOtpRows == 2      \* send-email is accepted while the otp table is smaller
MaxUserRows == 2     \* sign-up requests are accepted while the user table is smaller
MaxTime == 2         \* the clock stops ticking here
MaxPasswordLen == 8  \* the longest password among the sampled passwords

Slots == 1..MaxReq

-----------------------------------------------------------------------------
(* Optional values and strings.                                            *)

None == <<>>
Some(v) == <<v>>
IsSome(o) == o # <<>>
Val(o) == o[1]

Upper == {"A","B","C","D","E","F","G","H","I","J","K","L","M",
          "N","O","P","Q","R","S","T","U","V","W","X","Y","Z"}
Lower == {"a","b","c","d","e","f","g","h","i","j","k","l","m",
          "n","o","p","q","r","s","t","u","v","w","x","y","z"}
Digit == {"0","1","2","3","4","5","6","7","8","9"}

Has(s, class) == \E i \in 1..Len(s) : s[i] \in class
HasNot(s, class) == \E i \in 1..Len(s) : s[i] \notin class

Reverse(s) == [i \in 1..Len(s) |-> s[Len(s) + 1 - i]]

\* positions of character c in s
Positions(s, c) == {i \in 1..Len(s) : s[i] = c}

-----------------------------------------------------------------------------
(* Request validation: the zod schemas and validateWithZod.                *)

PasswordMinLen == 8
NameMinLen == 2
PhoneMinLen == 10

AlNum == Upper \cup Lower \cup Digit

\* z.email(): zod's default e-mail pattern
\*   ^(?!\.)(?!.*\.\.)([A-Za-z0-9_'+\-\.]*)[A-Za-z0-9_+-]@
\*    ([A-Za-z0-9][A-Za-z0-9\-]*\.)+[A-Za-z]{2,}$
IsEmail(s) ==
  /\ Cardinality(Positions(s, "@")) = 1
  /\ LET at == CHOOSE i \in 1..Len(s) : s[i] = "@"
         dots == {i \in (at + 1)..Len(s) : s[i] = "."}
     IN  /\ at > 1
         /\ s[1] # "."
         /\ \A i \in 1..(Len(s) - 1) : ~(s[i] = "." /\ s[i + 1] = ".")
         /\ \A i \in 1..(at - 1) : s[i] \in AlNum \cup {"_", "'", "+", "-", "."}
         /\ s[at - 1] \in AlNum \cup {"_", "+", "-"}
         /\ dots # {}
         /\ LET last == CHOOSE d \in dots : \A e \in dots : e <= d
            IN  /\ Len(s) - last >= 2
                /\ \A i \in (last + 1)..Len(s) : s[i] \in Upper \cup Lower
                /\ \A i \in (at + 1)..(last - 1) : s[i] \in AlNum \cup {"-", "."}
                /\ s[at + 1] \in AlNum
                /\ \A d \in dots : d < last => s[d + 1] \in AlNum
                /\ last > at + 1

\* the password rules without the special-character rule
PasswordIssuesNoSpecial(p) ==
  (IF Len(p) < PasswordMinLen
     THEN <<"Password must be at least 8 characters">> ELSE <<>>)
  \o (IF ~Has(p, Upper)
     THEN <<"Password must contain at least one uppercase letter">> ELSE <<>>)
  \o (IF ~Has(p, Lower)
     THEN <<"Password must contain at least one lowercase letter">> ELSE <<>>)
  \o (IF ~Has(p, Digit)
     THEN <<"Password must contain at least one number">> ELSE <<>>)

\* the issues of the password rules, in the order the checks are chained
PasswordIssues(p) ==
  (IF Len(p) < PasswordMinLen
     THEN <<"Password must be at least 8 characters">> ELSE <<>>)
  \o (IF ~Has(p, Upper)
     THEN <<"Password must contain at least one uppercase letter">> ELSE <<>>)
  \o (IF ~Has(p, Lower)
     THEN <<"Password must contain at least one lowercase letter">> ELSE <<>>)
  \o (IF ~Has(p, Digit)
     THEN <<"Password must contain at least one number">> ELSE <<>>)
  \o (IF ~HasNot(p, AlNum)
     THEN <<"Password must contain at least one special character">> ELSE <<>>)

\* the fields each schema declares, in declaration order
SchemaFields(schema) ==
  CASE schema = "signInUserSchema" -> <<"email", "password">>
    [] schema = "signUpUserSchema" -> <<"name", "email", "phone", "password">>
    [] schema = "sendOtpSchema" -> <<"email">>

\* the messages of the issues zod reports for one declared field
FieldIssues(schema, field, body) ==
  IF field \notin DOMAIN body
    THEN <<"Invalid input: expected string, received undefined">>
    ELSE LET v == body[field] IN
      CASE field = "email" ->
             IF IsEmail(v) THEN <<>>
             ELSE IF schema = "sendOtpSchema" THEN <<"Invalid email address">>
             ELSE <<"Email is invalid">>
        [] field = "password" -> PasswordIssues(v)
        [] field = "name" ->
             IF Len(v) < NameMinLen
               THEN <<"Name must be at least 2 characters">> ELSE <<>>
        [] field = "phone" ->
             IF Len(v) < PhoneMinLen
               THEN <<"Phone number must be at least 10 digits">> ELSE <<>>

RECURSIVE IssuesFrom(_, _, _)
IssuesFrom(schema, body, k) ==
  IF k > Len(SchemaFields(schema)) THEN <<>>
  ELSE LET f == SchemaFields(schema)[k]
           ms == FieldIssues(schema, f, body)
       IN  [i \in 1..Len(ms) |-> [path |-> f, message |-> ms[i]]]
           \o IssuesFrom(schema, body, k + 1)

\* a parse that passes undeclared keys through (z.looseObject)
ParsedKeysLoose(schema, body) == DOMAIN body

\* the keys of the value a successful parse returns: z.object() keeps the
\* declared keys and strips every other key of the input
ParsedKeys(schema, body) ==
  {SchemaFields(schema)[k] : k \in 1..Len(SchemaFields(schema))}

\* a parse whose value on success is its input, untouched
safeParseUnparsed(schema, body) ==
  LET issues == IssuesFrom(schema, body, 1) IN
  IF issues # <<>>
    THEN [success |-> FALSE, issues |-> issues]
    ELSE [success |-> TRUE, data |-> body]

\* schema.safeParse(body)
safeParse(schema, body) ==
  LET issues == IssuesFrom(schema, body, 1) IN
  IF issues # <<>>
    THEN [success |-> FALSE, issues |-> issues]
    ELSE [success |-> TRUE,
          data |-> [k \in ParsedKeys(schema, body) |-> body[k]]]

\* a formatter in which every issue overwrites the entry of its path
formatZodErrorsLast(issues) ==
  LET paths == {issues[i].path : i \in 1..Len(issues)} IN
  [p \in paths |->
     LET last == CHOOSE i \in 1..Len(issues) :
                   /\ issues[i].path = p
                   /\ \A j \in (i + 1)..Len(issues) : issues[j].path # p
     IN  issues[last].message]

\* formatZodErrors(error): an issue sets the entry of its path unless the
\* entry is set already; if (!formatted[path]) takes an entry that holds the
\* empty message for one that is not set
formatZodErrors(issues) ==
  LET paths == {issues[i].path : i \in 1..Len(issues)}
      setting(p) == {i \in 1..Len(issues) :
                       /\ issues[i].path = p
                       /\ \A j \in 1..(i - 1) :
                            issues[j].path = p => issues[j].message = ""}
  IN  [p \in paths |->
         issues[CHOOSE i \in setting(p) : \A j \in setting(p) : j <= i].message]

-----------------------------------------------------------------------------
(* OTP generation and password hashing.                                    *)

OtpRange == 10000
OtpLen == 4
SaltRounds == 10

DigitChar(d) == <<"0","1","2","3","4","5","6","7","8","9">>[d + 1]

\* Number.prototype.toString() of a natural number
RECURSIVE NatToString(_)
NatToString(n) ==
  IF n < 10 THEN <<DigitChar(n)>>
  ELSE NatToString(n \div 10) \o <<DigitChar(n % 10)>>

RECURSIVE padStart(_, _, _)
padStart(s, len, c) == IF Len(s) >= len THEN s ELSE padStart(<<c>> \o s, len, c)

\* the digits of n without the padding
generate4DigitOTPUnpadded(n) == NatToString(n)

\* generate4DigitOTP(), for the value n that randomInt(0, 10_000) returned
generate4DigitOTP(n) == padStart(NatToString(n), OtpLen, "0")

\* bcrypt.hash(password, 10) for the salt drawn: the modular-crypt string
\* "$2b$10$" ++ salt ++ digest.  The Blowfish digest is not computed; the
\* reversed password stands for it (a deterministic function of password and
\* salt whose text differs from the password).
hashPassword(password, salt) ==
  <<"$", "2", "b", "$">> \o NatToString(SaltRounds) \o <<"$">>
    \o salt \o Reverse(password)

-----------------------------------------------------------------------------
(* Session tokens.                                                         *)

\* the span of encodeJWT's default expiresIn, "15m": no whole day
TimeSpanDefault(expiresIn) == 0

\* the span an expiresIn string denotes, in days
TimeSpan(expiresIn) == CASE expiresIn = "7d" -> 7

\* new TextEncoder().encode(process.env.JWT_SECRET || "dev-secret"), for the
\* optional value of JWT_SECRET in the environment of the process at the
\* moment src/utils is imported
SecretOf(envJwtSecret) ==
  [utf8 |-> IF IsSome(envJwtSecret) /\ Val(envJwtSecret) # <<>>
              THEN Val(envJwtSecret)
              ELSE <<"d","e","v","-","s","e","c","r","e","t">>]

\* encodeJWT(payload, expiresIn) signed with key at time t.  A compact JWS is
\* kept as the record of what it carries and the key that signed it.
encodeJWT(payload, expiresIn, key, t) ==
  [alg |-> "HS256", typ |-> "JWT", payload |-> payload,
   iat |-> t, exp |-> t + TimeSpan(expiresIn), key |-> key]

\* One element of a header value: a character, or a whole compact JWS (which
\* contains no space).
Ch(c) == [ch |-> c]
Jws(t) == [jws |-> t]
Text(s) == [i \in 1..Len(s) |-> Ch(s[i])]

Bearer == Text(<<"B","e","a","r","e","r"," ">>)

\* a prefix test that compares lengths only
startsWithLength(s, prefix) == Len(s) >= Len(prefix)

startsWith(s, prefix) ==
  /\ Len(s) >= Len(prefix)
  /\ SubSeq(s, 1, Len(prefix)) = prefix

\* String.prototype.split(sep) for a one-character separator
RECURSIVE split(_, _)
split(s, sep) ==
  IF \A i \in 1..Len(s) : s[i] # sep THEN <<s>>
  ELSE LET k == CHOOSE i \in 1..Len(s) :
                  s[i] = sep /\ \A j \in 1..(i - 1) : s[j] # sep
       IN  <<SubSeq(s, 1, k - 1)>> \o split(SubSeq(s, k + 1, Len(s)), sep)

\* pieces[i] with JavaScript's zero-based index: undefined past the end
At(pieces, i) == IF i + 1 <= Len(pieces) THEN Some(pieces[i + 1]) ELSE None

\* verifyJWT(token) with key at time t: jwtVerify(token, SECRET,
\* {algorithms: ["HS256"]}).  The outcome is the payload or the error thrown.
verifyJWT(token, key, t) ==
  IF ~IsSome(token) \/ Len(Val(token)) # 1 \/ "jws" \notin DOMAIN Val(token)[1]
    THEN [ok |-> FALSE, code |-> "ERR_JWS_INVALID", name |-> "JWSInvalid"]
  ELSE LET jws == Val(token)[1].jws IN
    IF jws.alg # "HS256"
      THEN [ok |-> FALSE, code |-> "ERR_JOSE_ALG_NOT_ALLOWED",
            name |-> "JOSEAlgNotAllowed"]
    ELSE IF jws.key # key
      THEN [ok |-> FALSE, code |-> "ERR_JWS_SIGNATURE_VERIFICATION_FAILED",
            name |-> "JWSSignatureVerificationFailed"]
    ELSE IF jws.exp <= t
      THEN [ok |-> FALSE, code |-> "ERR_JWT_EXPIRED", name |-> "JWTExpired"]
    ELSE [ok |-> TRUE,
          payload |-> [id |-> jws.payload.id, email |-> jws.payload.email,
                       name |-> jws.payload.name,
                       iat |-> jws.iat, exp |-> jws.exp]]

-----------------------------------------------------------------------------
(* The store.                                                              *)

\* a comparison that drops the filter when the value is undefined
SqlEqSkipUndefined(column, value) == ~IsSome(value) \/ column = Val(value)

\* eq(column, value) of a query: an undefined value is bound as SQL NULL, and
\* "column = NULL" is true of no row
SqlEq(column, value) == IsSome(value) /\ column = Val(value)

\* findFirst has no ORDER BY: any matching row may be the one returned
FindFirst(rows) == IF rows = {} THEN {None} ELSE {Some(rw) : rw \in rows}

UserRows == {usersTable[i] : i \in 1..Len(usersTable)}

\* usersTable.findFirst({where: eq(users.email, email)})
UsersByEmail(email) == FindFirst({u \in UserRows : SqlEq(u.email, email)})

\* a lookup without the where clause
UsersByIdAny(id) == FindFirst(UserRows)

\* usersTable.findFirst({where: eq(users.id, id)})
UsersById(id) == FindFirst({u \in UserRows : SqlEq(u.id, id)})

\* otpTable.findFirst({where: and(eq(otp.email, email), eq(otp.isUsed, false),
\*                                eq(otp.code, recivedOtp))})
OtpByEmailCode(email, recivedOtp) ==
  FindFirst({o \in BagToSet(otpTable) :
               /\ SqlEq(o.email, email)
               /\ o.isUsed = FALSE
               /\ SqlEq(o.code, recivedOtp)})

\* an insert that is skipped when the e-mail already has a row
InsertOtpUnlessPresent(email, code) ==
  IF \E o \in BagToSet(otpTable) : o.email = email THEN otpTable
  ELSE otpTable (+) SetToBag({[email |-> email, code |-> code, isUsed |-> FALSE]})

\* insert(otpTable).values({email, code}): isUsed takes its default
InsertOtp(email, code) ==
  otpTable (+) SetToBag({[email |-> email, code |-> code, isUsed |-> FALSE]})

\* update(otpTable).set({isUsed: true}).where(eq(otpTable.email, email))
MarkUsed(email) ==
  LET rows == BagToSet(otpTable)
      after(o) == IF o.email = email THEN [o EXCEPT !.isUsed = TRUE] ELSE o
      count(o) == IF o \in rows THEN otpTable[o] ELSE 0
  IN  [n \in {after(o) : o \in rows} |->
         IF n.email = email
           THEN count(n) + count([n EXCEPT !.isUsed = FALSE])
           ELSE count(n)]

\* insert(usersTable).values({name, email, phone, password}).returning()
NewUserRow(name, email, phone, password) ==
  [id |-> Len(usersTable) + 1, name |-> name, email |-> email,
   phone |-> phone, password |-> password]

-----------------------------------------------------------------------------
(* The values clients send and the rows the store holds at start-up.       *)

EmailA == <<"a","@","b",".","c","o">>
EmailB == <<"c","@","d",".","c","o">>
NameAl == <<"A","l">>
Phone == <<"1","2","3","4","5","6","7","8","9","0">>
PwGood == <<"A","b","c","1","2","3","!","@">>
PwWeak == <<"a","b","c","1","2","3","4","5">>
Salt == <<"N","x">>

\* the values randomInt(0, 10_000) may return: min inclusive, max exclusive
RandomRange == 0..(OtpRange - 1)

\* the values randomInt(0, 10_000) returns in the model
RandomInts == {7, 1234} \cap 0..(OtpRange - 1)

Codes == {generate4DigitOTP(n) : n \in RandomInts}

\* valid bodies for two e-mails and two codes, and one with a weak password
SignUpPayloads ==
  {[name |-> NameAl, email |-> EmailA, phone |-> Phone, password |-> PwGood,
    otp |-> c] : c \in Codes}
  \cup {[name |-> NameAl, email |-> EmailB, phone |-> Phone,
         password |-> PwGood, otp |-> generate4DigitOTP(7)]}
  \cup {[name |-> NameAl, email |-> EmailA, phone |-> Phone,
         password |-> PwWeak, otp |-> generate4DigitOTP(7)]}

SignInPayloads ==
  {[email |-> e, password |-> p] :
     e \in {EmailA, EmailB},
     p \in {PwGood, PwWeak, hashPassword(PwGood, Salt)}}

SendEmailPayloads ==
  {[email |-> e] : e \in {EmailA, EmailB}}
  \cup {[email |-> <<"a",".","b">>, otp |-> generate4DigitOTP(7)]}

\* The user table when the server starts: empty, or holding the row a
\* sign-up of (NameAl, EmailA, Phone, PwGood) inserts.
SeedUsers ==
  {<<>>,
   <<[id |-> 1, name |-> NameAl, email |-> EmailA, phone |-> Phone,
      password |-> hashPassword(PwGood, Salt)]>>}

\* JWT_SECRET in the environment of the process: unset, or set
ProcessEnvs == {None, Some(<<"k","1">>)}

\* JWT_SECRET in the .env file: no such line, or a line that sets it
EnvFiles == {None, Some(<<"k","2">>)}

-----------------------------------------------------------------------------
(* Requests.                                                               *)

\* no script is running
NoShell == [script |-> "none", pc |-> "none"]

\* no service of the compose file has been created
NoServices == [postgres |-> "absent", backend |-> "absent"]

Idle == [route |-> "none", pc |-> "idle"]

NoReply == [sent |-> FALSE]

\* reply.status(status).send(payload), with the cookie set before it, if any
Reply(status, payload, cookie) ==
  [sent |-> TRUE, status |-> status, payload |-> payload, cookie |-> cookie]

\* a request as fastify hands it to the first hook of its route
Incoming(route, payload, authorization, cookieToken) ==
  [route |-> route,
   pc |-> IF route = "detail" THEN "preHandler" ELSE "preValidation",
   payload |-> payload,
   body |-> payload,
   headers |-> [authorization |-> authorization],
   cookies |-> [token |-> cookieToken],
   user |-> None,
   verifyJWTCalls |-> <<>>,
   isEmailExist |-> None,
   isOtpValid |-> None,
   hashedPassword |-> None,
   inserted |-> None,
   thrown |-> None,
   reply |-> NoReply]

Free(r) == req[r].pc \in {"idle", "done"}

InFlight(route) == Cardinality({r \in Slots : req[r].route = route /\ ~Free(r)})

\* a hook that sends nothing and lets every body through to the handler
validateWithZodPassThrough(q, schema) == [q EXCEPT !.pc = "handler"]

\* validateWithZod(req, reply, {body: schema}) as the route's preValidation
\* hook: the request it leaves behind
validateWithZod(q, schema) ==
  LET result == safeParse(schema, q.body) IN
  IF ~result.success
    THEN [q EXCEPT !.pc = "done",
                   !.reply = Reply(422, [error |-> "Invalid body",
                                         details |-> formatZodErrors(result.issues)],
                                   None)]
    ELSE [q EXCEPT !.body = result.data, !.pc = "handler"]

Init ==
  /\ usersTable \in SeedUsers
  /\ otpTable = EmptyBag
  /\ req = [r \in Slots |-> Idle]
  /\ now = 0
  /\ SECRET = SecretOf(None)
  /\ proc = [pc |-> "listening", env |-> [JWT_SECRET |-> None]]
  /\ envFile = [JWT_SECRET |-> None]
  /\ sh = NoShell
  /\ compose = NoServices

\* A client posts to /user/sign-up and the route's preValidation hook runs
\* (signUpUserSchema; it has no await, so nothing interleaves with it).
ReceiveSignUp(r) ==
  /\ Free(r)
  /\ Len(usersTable) + InFlight("sign-up") < MaxUserRows
  /\ \E payload \in SignUpPayloads :
       req' = [req EXCEPT ![r] =
                 validateWithZod(Incoming("sign-up", payload, None, None),
                                 "signUpUserSchema")]
  /\ UNCHANGED <<usersTable, otpTable, now, SECRET, proc, envFile, sh, compose>>

\* A client posts to /user/sign-in and signInUserSchema runs.
ReceiveSignIn(r) ==
  /\ Free(r)
  /\ \E payload \in SignInPayloads :
       req' = [req EXCEPT ![r] =
                 validateWithZod(Incoming("sign-in", payload, None, None),
                                 "signInUserSchema")]
  /\ UNCHANGED <<usersTable, otpTable, now, SECRET, proc, envFile, sh, compose>>

\* A client posts to /user/send-email and sendOtpSchema runs.
ReceiveSendEmail(r) ==
  /\ Free(r)
  /\ BagCardinality(otpTable) + InFlight("send-email") < MaxOtpRows
  /\ \E payload \in SendEmailPayloads :
       req' = [req EXCEPT ![r] =
                 validateWithZod(Incoming("send-email", payload, None, None),
                                 "sendOtpSchema")]
  /\ UNCHANGED <<usersTable, otpTable, now, SECRET, proc, envFile, sh, compose>>

-----------------------------------------------------------------------------
(* UserController.                                                         *)

\* the destructured field of request.body: undefined when the key is absent
Field(body, key) == IF key \in DOMAIN body THEN Some(body[key]) ELSE None

\* the existing-email check left out
EmailTakenNever(isEmailExist) == FALSE

\* if (isEmailExist)
EmailTaken(isEmailExist) == IsSome(isEmailExist)

\* the OTP check left out
OtpAcceptedAlways(isOtpValid) == TRUE

\* if (!isOtpValid) ... else
OtpAccepted(isOtpValid) == IsSome(isOtpValid)

\* the stored hash verified against the submitted password (bcrypt.compare)
PasswordMatchesHash(stored, submitted) == stored = hashPassword(submitted, Salt)

\* user.password !== password, negated
PasswordMatches(stored, submitted) == stored = submitted

\* the row without its password field
UserDataPublic(user) == [k \in DOMAIN user \ {"password"} |-> user[k]]

\* data: user, in the body both handlers send
UserData(user) == user

\* a payload that names no user
TokenPayloadAnonymous(user) == [id |-> 0, email |-> user.email, name |-> user.name]

\* the payload both handlers sign
TokenPayload(user) == [id |-> user.id, email |-> user.email, name |-> user.name]

\* the cookie that lives one day
CookieMaxAgeDay == 60 * 60 * 24

\* maxAge of the cookie both handlers set, in seconds
CookieMaxAge == 60 * 60 * (24 * 7)

\* reply.cookie("token", token, {httpOnly, sameSite, path, maxAge})
SessionCookie(token) ==
  [name |-> "token", value |-> token, httpOnly |-> TRUE, sameSite |-> "lax",
   path |-> "/", maxAge |-> CookieMaxAge]

SignUpPcs == {"handler", "otpLookup", "hash", "insertUser", "markUsed", "encode"}

\* One step of signUp for request r: the code between two awaits.  u and o
\* are the rows the two findFirst queries may return.
signUp(r) ==
  /\ req[r].route = "sign-up"
  /\ req[r].pc \in SignUpPcs
  /\ LET q == req[r]
         email == Field(q.body, "email")
         recivedOtp == Field(q.body, "otp")
     IN
     \E u \in UsersByEmail(email), o \in OtpByEmailCode(email, recivedOtp) :
       CASE q.pc = "handler" ->
              /\ req' = [req EXCEPT ![r] =
                   IF EmailTaken(u)
                     THEN [q EXCEPT !.isEmailExist = u, !.pc = "done",
                             !.reply = Reply(422,
                                [message |-> "Email already exists"], None)]
                     ELSE [q EXCEPT !.isEmailExist = u, !.pc = "otpLookup"]]
              /\ UNCHANGED <<usersTable, otpTable>>
         [] q.pc = "otpLookup" ->
              /\ req' = [req EXCEPT ![r] =
                   IF OtpAccepted(o)
                     THEN [q EXCEPT !.isOtpValid = o, !.pc = "hash"]
                     ELSE [q EXCEPT !.isOtpValid = o, !.pc = "done",
                             !.reply = Reply(422,
                                [message |-> "Invalid OTP code either used or expired"],
                                None)]]
              /\ UNCHANGED <<usersTable, otpTable>>
         [] q.pc = "hash" ->
              /\ req' = [req EXCEPT ![r] =
                   [q EXCEPT !.hashedPassword = Some(hashPassword(q.body.password, Salt)),
                             !.pc = "insertUser"]]
              /\ UNCHANGED <<usersTable, otpTable>>
         [] q.pc = "insertUser" ->
              LET row == NewUserRow(q.body.name, q.body.email, q.body.phone,
                                    Val(q.hashedPassword))
              IN  /\ usersTable' = Append(usersTable, row)
                  /\ req' = [req EXCEPT ![r] =
                       [q EXCEPT !.inserted = Some(row), !.pc = "markUsed"]]
                  /\ UNCHANGED otpTable
         [] q.pc = "markUsed" ->
              /\ otpTable' = MarkUsed(q.body.email)
              /\ req' = [req EXCEPT ![r] = [q EXCEPT !.pc = "encode"]]
              /\ UNCHANGED usersTable
         [] q.pc = "encode" ->
              LET user == Val(q.inserted)
                  encode == encodeJWT(TokenPayload(user), "7d", SECRET, now)
              IN  /\ req' = [req EXCEPT ![r] =
                       [q EXCEPT !.pc = "done",
                          !.reply = Reply(200,
                             [message |-> "Sign up successful", data |-> UserData(user)],
                             Some(SessionCookie(encode)))]]
                  /\ UNCHANGED <<usersTable, otpTable>>
  /\ UNCHANGED <<now, SECRET, proc, envFile, sh, compose>>

SignInPcs == {"handler", "encode"}

\* One step of signIn for request r.
signIn(r) ==
  /\ req[r].route = "sign-in"
  /\ req[r].pc \in SignInPcs
  /\ LET q == req[r] IN
     \E u \in UsersByEmail(Field(q.body, "email")) :
       CASE q.pc = "handler" ->
              req' = [req EXCEPT ![r] =
                IF ~IsSome(u)
                  THEN [q EXCEPT !.pc = "done",
                          !.reply = Reply(422,
                             [message |-> "Invalid email or password"], None)]
                ELSE IF ~PasswordMatches(Val(u).password, q.body.password)
                  THEN [q EXCEPT !.inserted = u, !.pc = "done",
                          !.reply = Reply(422,
                             [message |-> "Please enter correct password"], None)]
                ELSE [q EXCEPT !.inserted = u, !.pc = "encode"]]
         [] q.pc = "encode" ->
              LET user == Val(q.inserted)
                  token == encodeJWT(TokenPayload(user), "7d", SECRET, now)
              IN  req' = [req EXCEPT ![r] =
                    [q EXCEPT !.pc = "done",
                       !.reply = Reply(200,
                          [message |-> "Login successful", data |-> UserData(user)],
                          Some(SessionCookie(token)))]]
  /\ UNCHANGED <<usersTable, otpTable, now, SECRET, proc, envFile, sh, compose>>

\* sendEmail for request r when randomInt returns one of ints: the code
\* drawn, the row inserted, the answer.
sendEmailDrawing(r, ints) ==
  /\ req[r].route = "send-email"
  /\ req[r].pc = "handler"
  /\ \E n \in ints :
       LET random == generate4DigitOTP(n) IN
       /\ otpTable' = InsertOtp(req[r].body.email, random)
       /\ req' = [req EXCEPT ![r] =
            [req[r] EXCEPT !.pc = "done",
               !.reply = Reply(200, [message |-> "OTP sent successfully"], None)]]
  /\ UNCHANGED <<usersTable, now, SECRET, proc, envFile, sh, compose>>

\* sendEmail with the draws of the model
sendEmail(r) == sendEmailDrawing(r, RandomInts)

\* sendEmail with every draw randomInt can make
sendEmailAnyDraw(r) == sendEmailDrawing(r, RandomRange)

\* sign-up and send-email, the two routes that write the store
Next ==
  \E r \in Slots :
    \/ ReceiveSignUp(r)
    \/ ReceiveSendEmail(r)
    \/ signUp(r)
    \/ sendEmail(r)

Spec == Init /\ [][Next]_vars

\* sign-in, which only reads the user table
NextSignIn ==
  \E r \in Slots :
    \/ ReceiveSignIn(r)
    \/ signIn(r)

SpecSignIn == Init /\ [][NextSignIn]_vars

-----------------------------------------------------------------------------
(* AuthMiddleware and the protected route.                                 *)

\* The tokens a client may hold: issued by this server for the user of the
\* seed row seven, six or zero days before the start (so already expired,
\* expiring on day 1, or valid throughout), or signed with another key.
IssuedAt == {-7, -6, 0}

SeedIdentity == [id |-> 1, email |-> EmailA, name |-> NameAl]

ClientTokens ==
  {encodeJWT(SeedIdentity, "7d", SECRET, t) : t \in IssuedAt}
  \cup {encodeJWT(SeedIdentity, "7d", [utf8 |-> <<"x">>], 0)}

FreshToken == encodeJWT(SeedIdentity, "7d", SECRET, 0)

\* a token issued to a user whose row is no longer in the table
StaleIdentity == [id |-> 2, email |-> EmailB, name |-> NameAl]

StaleToken == encodeJWT(StaleIdentity, "7d", SECRET, 0)

\* the (Authorization header, token cookie) pairs of the detail requests
DetailRequests ==
  {<<Some(Bearer \o <<Jws(t)>>), None>> : t \in ClientTokens}
  \cup {<<Some(Bearer \o <<Jws(StaleToken)>>), None>>,
        <<None, None>>,
        <<None, Some(FreshToken)>>,
        <<Some(<<>>), None>>,
        <<Some(<<Jws(FreshToken)>>), None>>,
        <<Some(Text(<<"B","a","s","i","c"," ">>) \o <<Jws(FreshToken)>>), None>>,
        <<Some(Bearer), None>>,
        <<Some(Bearer \o <<Ch(" "), Jws(FreshToken)>>), None>>,
        <<Some(Bearer \o <<Jws(FreshToken), Ch(" "), Ch("x")>>), None>>}

\* A client requests GET /user/detail.
ReceiveDetail(r) ==
  /\ Free(r)
  /\ \E d \in DetailRequests :
       req' = [req EXCEPT ![r] = Incoming("detail", <<>>, d[1], d[2])]
  /\ UNCHANGED <<usersTable, otpTable, now, SECRET, proc, envFile, sh, compose>>

\* the prefix test left out
UnauthorizedNoPrefix(token) == ~IsSome(token) \/ Val(token) = <<>>

\* if (!token || !token.startsWith("Bearer "))
Unauthorized(token) ==
  \/ ~IsSome(token)
  \/ Val(token) = <<>>
  \/ ~startsWith(Val(token), Bearer)

\* AuthMiddleware.handle as the preHandler hook of /user/detail
handle(r) ==
  /\ req[r].route = "detail"
  /\ req[r].pc = "preHandler"
  /\ LET q == req[r]
         token == q.headers.authorization
     IN
     IF Unauthorized(token)
       THEN req' = [req EXCEPT ![r] =
              [q EXCEPT !.pc = "done",
                 !.reply = Reply(401, [error |-> "Unauthorized"], None)]]
       ELSE LET arg == At(split(Val(token), Ch(" ")), 1)
                tokenPayload == verifyJWT(arg, SECRET, now)
            IN  req' = [req EXCEPT ![r] =
                  IF tokenPayload.ok
                    THEN [q EXCEPT !.verifyJWTCalls = Append(@, arg),
                                   !.user = Some(tokenPayload.payload),
                                   !.pc = "handler"]
                    ELSE [q EXCEPT !.verifyJWTCalls = Append(@, arg),
                            !.pc = "done",
                            !.reply = Reply(401,
                               [error |->
                                  IF tokenPayload.code = "ERR_JWT_EXPIRED"
                                     \/ tokenPayload.name = "JWTExpired"
                                    THEN "Token expired" ELSE "Invalid token",
                                details |-> tokenPayload.name],
                               None)]]
  /\ UNCHANGED <<usersTable, otpTable, now, SECRET, proc, envFile, sh, compose>>

EmptyObject == <<>>

\* getUserDetail, with getUser(payload.id)
getUserDetail(r) ==
  /\ req[r].route = "detail"
  /\ req[r].pc = "handler"
  /\ LET q == req[r]
         payload == q.user
         id == IF IsSome(payload) THEN Some(Val(payload).id) ELSE None
     IN
     \E user \in UsersById(id) :
       req' = [req EXCEPT ![r] =
         [q EXCEPT !.pc = "done",
            !.reply = Reply(200,
               [data |-> IF IsSome(user) THEN Val(user) ELSE EmptyObject,
                message |-> "User details fetched successfully"],
               None)]]
  /\ UNCHANGED <<usersTable, otpTable, now, SECRET, proc, envFile, sh, compose>>

\* a day passes
Tick ==
  /\ now < MaxTime
  /\ now' = now + 1
  /\ UNCHANGED <<usersTable, otpTable, req, SECRET, proc, envFile, sh, compose>>

NextAuth ==
  \/ \E r \in Slots :
       \/ ReceiveDetail(r)
       \/ handle(r)
       \/ getUserDetail(r)
  \/ Tick

SpecAuth == Init /\ [][NextAuth]_vars

-----------------------------------------------------------------------------
(* One request from arrival to answer, on any of the three POST routes,    *)
(* with the failures a handler may throw.                                  *)

Rep(c, n) == [i \in 1..n |-> c]

\* Passwords of PasswordMinLen - 1 up to MaxPasswordLen characters with every
\* combination of uppercase, lowercase, digit and special characters (the
\* rules do not look at the order), and the two passwords of SignInPayloads.
PasswordSamples ==
  LET N == 0..MaxPasswordLen
      counts == {t \in N \X N \X N \X N :
                   /\ t[1] + t[2] + t[3] + t[4] >= PasswordMinLen - 1
                   /\ t[1] + t[2] + t[3] + t[4] <= MaxPasswordLen}
  IN  {Rep("A", t[1]) \o Rep("a", t[2]) \o Rep("1", t[3]) \o Rep("!", t[4]) :
         t \in counts}
      \cup {PwGood, PwWeak}

\* the (route, body) pairs of the requests
RequestBodies ==
  {<<"sign-up", b>> : b \in SignUpPayloads}
  \cup {<<"sign-in", b>> : b \in SignInPayloads}
  \cup {<<"send-email", b>> : b \in SendEmailPayloads}
  \cup {<<"sign-in", [email |-> EmailA, password |-> p]>> : p \in PasswordSamples}
  \cup {<<"sign-up", [name |-> NameAl, email |-> EmailB, phone |-> Phone,
                      password |-> p, otp |-> generate4DigitOTP(7)]>> :
          p \in PasswordSamples}
  \cup {<<"sign-in", [email |-> EmailB]>>,
        <<"sign-up", [name |-> <<"A">>, email |-> <<"a",".","b">>,
                      phone |-> <<"1">>, password |-> PwWeak]>>}

\* the schema of the preValidation hook registered for each route
SchemaOf(route) ==
  CASE route = "sign-in" -> "signInUserSchema"
    [] route = "sign-up" -> "signUpUserSchema"
    [] route = "send-email" -> "sendOtpSchema"

\* One request has arrived on one slot; its preValidation hook has not run.
InitRequest ==
  /\ usersTable \in SeedUsers
  /\ otpTable = EmptyBag
  /\ now = 0
  /\ SECRET = SecretOf(None)
  /\ proc = [pc |-> "listening", env |-> [JWT_SECRET |-> None]]
  /\ envFile = [JWT_SECRET |-> None]
  /\ sh = NoShell
  /\ compose = NoServices
  /\ \E s \in Slots, b \in RequestBodies :
       req = [r \in Slots |->
                IF r = s THEN Incoming(b[1], b[2], None, None) ELSE Idle]

\* the preValidation hook of the request's route runs
preValidation(r) ==
  /\ req[r].pc = "preValidation"
  /\ req' = [req EXCEPT ![r] = validateWithZod(req[r], SchemaOf(req[r].route))]
  /\ UNCHANGED <<usersTable, otpTable, now, SECRET, proc, envFile, sh, compose>>

\* an error the verbose handler would send as it is
setErrorHandlerVerbose(err) ==
  [sent |-> TRUE,
   status |-> IF IsSome(err.statusCode) THEN Val(err.statusCode) ELSE 500,
   payload |-> [message |-> err.message], cookie |-> None]

\* fastify.setErrorHandler((err, req, reply) => ...): the reply it sends
setErrorHandler(err) ==
  LET status == IF /\ IsSome(err.statusCode)
                   /\ Val(err.statusCode) # 0
                   /\ Val(err.statusCode) >= 400
                   /\ Val(err.statusCode) < 600
                  THEN Val(err.statusCode) ELSE 500
  IN  Reply(status,
            [message |-> IF status = 500 THEN "Internal server error"
                         ELSE err.message],
            None)

\* The errors a handler may throw: a store failure (no statusCode), and
\* errors that carry a statusCode below, inside and above 400..599.
Errors ==
  {[statusCode |-> None, message |-> "connect ECONNREFUSED"]}
  \cup {[statusCode |-> Some(c), message |-> "boom"] :
          c \in {0, 399, 400, 500, 503, 599, 600}}

\* An await of the handler of request r rejects: the error leaves the
\* handler and fastify hands it to the error handler.
throws(r) ==
  /\ req[r].route \in {"sign-in", "sign-up", "send-email"}
  /\ req[r].pc \in SignUpPcs \cup SignInPcs
  /\ \E err \in Errors :
       req' = [req EXCEPT ![r] =
                 [req[r] EXCEPT !.pc = "done", !.thrown = Some(err),
                                !.reply = setErrorHandler(err)]]
  /\ UNCHANGED <<usersTable, otpTable, now, SECRET, proc, envFile, sh, compose>>

NextRequest ==
  \E r \in Slots :
    \/ preValidation(r)
    \/ signUp(r)
    \/ signIn(r)
    \/ sendEmail(r)
    \/ throws(r)

SpecRequest == InitRequest /\ [][NextRequest]_vars

-----------------------------------------------------------------------------
(* One send-email request and every code it can draw.                      *)

\* One send-email request has passed its preValidation hook.
InitOtp ==
  /\ usersTable \in SeedUsers
  /\ otpTable = EmptyBag
  /\ now = 0
  /\ SECRET = SecretOf(None)
  /\ proc = [pc |-> "listening", env |-> [JWT_SECRET |-> None]]
  /\ envFile = [JWT_SECRET |-> None]
  /\ sh = NoShell
  /\ compose = NoServices
  /\ \E s \in Slots, e \in {EmailA, EmailB} :
       req = [r \in Slots |->
                IF r = s
                  THEN validateWithZod(
                         Incoming("send-email", [email |-> e], None, None),
                         "sendOtpSchema")
                  ELSE Idle]

NextOtp == \E r \in Slots : sendEmailAnyDraw(r)

SpecOtp == InitOtp /\ [][NextOtp]_vars

-----------------------------------------------------------------------------
(* Start-up of the server: src/index.ts.                                   *)

\* SECRET before src/utils has been evaluated
Unset == [utf8 |-> <<>>]

\* The process has been launched: nothing of src/index.ts has run yet.
InitStart ==
  /\ usersTable \in SeedUsers
  /\ otpTable = EmptyBag
  /\ req = [r \in Slots |-> Idle]
  /\ now = 0
  /\ SECRET = Unset
  /\ \E e \in ProcessEnvs :
       proc = [pc |-> "import", env |-> [JWT_SECRET |-> e]]
  /\ \E f \in EnvFiles : envFile = [JWT_SECRET |-> f]
  /\ sh = NoShell
  /\ compose = NoServices

\* The import declarations of src/index.ts are evaluated before its body:
\* ./middleware/auth.middleware imports ../utils, whose top level computes
\* SECRET from process.env as it is at that moment.
importUtils ==
  /\ proc.pc = "import"
  /\ SECRET' = SecretOf(proc.env.JWT_SECRET)
  /\ proc' = [proc EXCEPT !.pc = "start"]
  /\ UNCHANGED <<usersTable, otpTable, req, now, envFile, sh, compose>>

\* dotenv.config(), as @fastify/env runs it for {dotenv: true}: a variable of
\* the file is written to process.env unless process.env already has it
dotenvConfig(env, file) ==
  [JWT_SECRET |-> IF IsSome(env.JWT_SECRET) THEN env.JWT_SECRET
                  ELSE file.JWT_SECRET]

\* start(): the plugins are registered (@fastify/env first, which loads
\* .env), the routes are registered and the server listens.
start ==
  /\ proc.pc = "start"
  /\ proc' = [pc |-> "listening", env |-> dotenvConfig(proc.env, envFile)]
  /\ UNCHANGED <<usersTable, otpTable, req, now, SECRET, envFile, sh, compose>>

\* start-up, then sign-in requests once the server listens
NextStart ==
  \/ importUtils
  \/ start
  \/ (proc.pc = "listening" /\ NextSignIn)

SpecStart == InitStart /\ [][NextStart]_vars

-----------------------------------------------------------------------------
(* Properties of sign-up and send-email (specification Spec).              *)

\* an unused OTP row with the e-mail and the code the client submitted
MatchingUnusedOtp(payload) ==
  /\ "otp" \in DOMAIN payload
  /\ \E o \in BagToSet(otpTable) :
       o.email = payload.email /\ o.code = payload.otp /\ o.isUsed = FALSE

UsersWithEmail(table, email) == {i \in 1..Len(table) : table[i].email = email}

Status(q) == IF q.reply.sent THEN q.reply.status ELSE 0

Said(q, message) ==
  /\ q.reply.sent
  /\ "message" \in DOMAIN q.reply.payload
  /\ q.reply.payload.message = message

\* request r finishes in this step, having passed validation
SignUpFinishes(r) ==
  /\ req[r].route = "sign-up"
  /\ req[r].pc \in SignUpPcs
  /\ req'[r].route = "sign-up"
  /\ req'[r].pc = "done"

\* C1: a validated sign-up whose e-mail has no User row and whose submitted
\* code matches an unused OTP row of that e-mail responds 200, leaves exactly
\* one User row with that e-mail, and leaves every OTP row of that e-mail used.
C1_SignUpWithMatchingOtpSucceeds ==
  [][\A r \in Slots :
       (/\ SignUpFinishes(r)
        /\ ~IsSome(req'[r].isEmailExist)
        /\ req[r].pc = "otpLookup" => MatchingUnusedOtp(req[r].payload))
       => /\ Status(req'[r]) = 200
          /\ Cardinality(UsersWithEmail(usersTable', req[r].payload.email)) = 1
          /\ \A o \in BagToSet(otpTable') :
               o.email = req[r].payload.email => o.isUsed]_vars

\* two sign-up requests that passed validation, carry the same e-mail and
\* the same code, found no User row for it, and have both been answered
SameOtpPair(r1, r2) ==
  /\ r1 # r2
  /\ req[r1].route = "sign-up" /\ req[r2].route = "sign-up"
  /\ req[r1].pc = "done" /\ req[r2].pc = "done"
  /\ "message" \in DOMAIN req[r1].reply.payload
  /\ "message" \in DOMAIN req[r2].reply.payload
  /\ req[r1].payload.email = req[r2].payload.email
  /\ req[r1].payload.otp = req[r2].payload.otp
  /\ ~IsSome(req[r1].isEmailExist) /\ ~IsSome(req[r2].isEmailExist)

OtpRejected(q) ==
  Status(q) = 422 /\ Said(q, "Invalid OTP code either used or expired")

\* C2: of two sign-up requests for the same e-mail with the same code, at
\* most one responds 200 and creates a User row; the other responds 422
\* with the invalid/expired OTP message.
C2_AtMostOneSignUpPerOtp ==
  \A r1, r2 \in Slots :
    SameOtpPair(r1, r2) =>
      /\ ~(Status(req[r1]) = 200 /\ Status(req[r2]) = 200)
      /\ OtpRejected(req[r1]) \/ OtpRejected(req[r2])
      /\ Cardinality(UsersWithEmail(usersTable, req[r1].payload.email)) <= 1

\* both requests of such a pair are answered while an unused OTP row with
\* their e-mail and code is in the store
C2_Witness ==
  \E r1, r2 \in Slots :
    /\ SameOtpPair(r1, r2)
    /\ MatchingUnusedOtp(req[r1].payload)
    /\ OtpRejected(req[r1]) /\ OtpRejected(req[r2])

\* C3: a User row is inserted only by a sign-up request whose OTP lookup
\* returned a row with the request's e-mail, the submitted code and
\* used=false; no other step adds a User row.
C3_UserRowOnlyAfterOtp ==
  [][usersTable' # usersTable =>
       \E r \in Slots :
         /\ req[r].route = "sign-up"
         /\ req[r].pc = "insertUser"
         /\ IsSome(req[r].isOtpValid)
         /\ "otp" \in DOMAIN req[r].payload
         /\ Val(req[r].isOtpValid).email = req[r].payload.email
         /\ Val(req[r].isOtpValid).code = req[r].payload.otp
         /\ Val(req[r].isOtpValid).isUsed = FALSE
         /\ Len(usersTable') = Len(usersTable) + 1
         /\ SubSeq(usersTable', 1, Len(usersTable)) = usersTable
         /\ usersTable'[Len(usersTable')].email = req[r].payload.email]_vars

\* a sign-up whose OTP lookup found no row has been rejected and the user
\* table holds no row for its e-mail
C3_Witness ==
  \E r \in Slots :
    /\ req[r].route = "sign-up"
    /\ req[r].pc = "done"
    /\ OtpRejected(req[r])
    /\ ~IsSome(req[r].isOtpValid)
    /\ UsersWithEmail(usersTable, req[r].payload.email) = {}

\* C4: a validated sign-up whose e-mail already has a User row responds 422
\* 'Email already exists' in its first step, whether or not a matching unused
\* OTP row exists, and that step changes neither table.
C4_ExistingEmailRejected ==
  [][\A r \in Slots :
       (/\ req[r].route = "sign-up"
        /\ req[r].pc = "handler"
        /\ req'[r] # req[r]
        /\ UsersWithEmail(usersTable, req[r].payload.email) # {})
       => /\ req'[r].pc = "done"
          /\ Status(req'[r]) = 422
          /\ Said(req'[r], "Email already exists")
          /\ usersTable' = usersTable
          /\ otpTable' = otpTable]_vars

\* such a request has been rejected although an unused OTP row matched it
C4_Witness ==
  \E r \in Slots :
    /\ req[r].route = "sign-up"
    /\ req[r].pc = "done"
    /\ Said(req[r], "Email already exists")
    /\ IsSome(req[r].isEmailExist)
    /\ MatchingUnusedOtp(req[r].payload)

-----------------------------------------------------------------------------
(* Properties of sign-in (specification SpecSignIn).                       *)

\* a sign-in request that passed validation and has been answered
SignInAnswered(r) ==
  /\ req[r].route = "sign-in"
  /\ req[r].pc = "done"
  /\ "message" \in DOMAIN req[r].reply.payload

\* the rows a sign-up of (email, password) stores: the password field is the
\* hasher's output for that password
RowsOfSignUp(email, password) ==
  {u \in UserRows : u.email = email /\ u.password = hashPassword(password, Salt)}

\* C6: once sign-up has stored a user for e-mail e and password p, a sign-in
\* with e and p responds 200 'Login successful' and sets the token cookie.
C6_SignInAfterSignUpSucceeds ==
  \A r \in Slots :
    (/\ SignInAnswered(r)
     /\ RowsOfSignUp(req[r].payload.email, req[r].payload.password) # {})
    => /\ Status(req[r]) = 200
       /\ Said(req[r], "Login successful")
       /\ IsSome(req[r].reply.cookie)

-----------------------------------------------------------------------------
(* Properties of the Auth Gate (specification SpecAuth).                   *)

BearerLen == Len(Bearer)

HasBearerPrefix(h) ==
  /\ Len(h) >= BearerLen
  /\ \A i \in 1..BearerLen : h[i] = Bearer[i]

\* the header is "Bearer " followed by nothing or by another space
EmptyToken(h) ==
  /\ HasBearerPrefix(h)
  /\ Len(h) = BearerLen \/ h[BearerLen + 1] = Ch(" ")

\* the header is "Bearer <jws>", possibly followed by " ..."
CarriesToken(h) ==
  /\ HasBearerPrefix(h)
  /\ Len(h) > BearerLen
  /\ "jws" \in DOMAIN h[BearerLen + 1]
  /\ Len(h) = BearerLen + 1 \/ h[BearerLen + 2] = Ch(" ")

\* token t is signed HS256 with the server's key and has not expired
Verifies(t) == t.alg = "HS256" /\ t.key = SECRET /\ t.exp > now

Identity(t) ==
  [id |-> t.payload.id, email |-> t.payload.email, name |-> t.payload.name,
   iat |-> t.iat, exp |-> t.exp]

GatePasses(h) ==
  /\ IsSome(h)
  /\ CarriesToken(Val(h))
  /\ Verifies(Val(h)[BearerLen + 1].jws)

DetailAnswered(r) == req[r].route = "detail" /\ req[r].pc = "done"

\* C9 as stated: a request whose Authorization header lacks the 'Bearer '
\* prefix, or has it followed by an empty token, gets 401 and verifyJWT is
\* never invoked for it.
C9_MalformedNeverVerified ==
  \A r \in Slots :
    (/\ DetailAnswered(r)
     /\ IsSome(req[r].headers.authorization)
     /\ \/ ~HasBearerPrefix(Val(req[r].headers.authorization))
        \/ EmptyToken(Val(req[r].headers.authorization)))
    => /\ Status(req[r]) = 401
       /\ req[r].verifyJWTCalls = <<>>

\* C9 as amended: a header without the 'Bearer ' prefix gets 401 and
\* verifyJWT is not invoked; a header with the prefix followed by an empty
\* token gets 401 too, but from verifyJWT, which is invoked once with the
\* empty string and rejects it.
C9_MalformedRejected ==
  \A r \in Slots :
    (DetailAnswered(r) /\ IsSome(req[r].headers.authorization)) =>
      LET h == Val(req[r].headers.authorization) IN
      /\ ~HasBearerPrefix(h) =>
           /\ Status(req[r]) = 401
           /\ req[r].verifyJWTCalls = <<>>
      /\ EmptyToken(h) =>
           /\ Status(req[r]) = 401
           /\ req[r].verifyJWTCalls = <<Some(<<>>)>>
           /\ req[r].reply.payload.error = "Invalid token"

\* a header without the prefix and a header with an empty token have both
\* been answered
C9_Witness ==
  \E r1, r2 \in Slots :
    /\ DetailAnswered(r1) /\ DetailAnswered(r2)
    /\ IsSome(req[r1].headers.authorization)
    /\ Val(req[r1].headers.authorization) # <<>>
    /\ ~HasBearerPrefix(Val(req[r1].headers.authorization))
    /\ IsSome(req[r2].headers.authorization)
    /\ EmptyToken(Val(req[r2].headers.authorization))
    /\ Len(Val(req[r2].headers.authorization)) > BearerLen
    /\ Status(req[r1]) = 401 /\ Status(req[r2]) = 401

\* C10: a request with no Authorization header and a valid token in the
\* 'token' cookie passes the Auth Gate and gets 200.
C10_CookieAuthenticates ==
  \A r \in Slots :
    (/\ DetailAnswered(r)
     /\ ~IsSome(req[r].headers.authorization)
     /\ IsSome(req[r].cookies.token)
     /\ Verifies(Val(req[r].cookies.token)))
    => Status(req[r]) = 200

\* the ttl both handlers pass to encodeJWT, in days
SevenDays == 7

\* the header is exactly "Bearer <jws>" and the jws was signed HS256 with the
\* server's key
IssuedHere(h) ==
  /\ IsSome(h)
  /\ CarriesToken(Val(h))
  /\ Val(h)[BearerLen + 1].jws.alg = "HS256"
  /\ Val(h)[BearerLen + 1].jws.key = SECRET

TokenOf(h) == Val(h)[BearerLen + 1].jws

GateError(q) ==
  IF q.reply.sent /\ "error" \in DOMAIN q.reply.payload
    THEN q.reply.payload.error ELSE "none"

\* C11: a token issued with ttl 7 days passes the Auth Gate at every instant
\* before issuance + 7 days; at every instant after that the gate answers 401
\* 'Token expired'; a verification that fails for any other reason is
\* answered 401 'Invalid token'.
C11_TokenLifetime ==
  [][\A r \in Slots :
       (req[r].route = "detail" /\ req[r].pc = "preHandler"
        /\ req'[r] # req[r])
       => LET h == req[r].headers.authorization IN
          /\ (IssuedHere(h) /\ now < TokenOf(h).iat + SevenDays)
               => req'[r].pc = "handler" /\ ~req'[r].reply.sent
          /\ (IssuedHere(h) /\ now > TokenOf(h).iat + SevenDays)
               => /\ Status(req'[r]) = 401
                  /\ GateError(req'[r]) = "Token expired"
          /\ GateError(req'[r]) = "Token expired"
               => IssuedHere(h) /\ now >= TokenOf(h).iat + SevenDays
          /\ (req'[r].verifyJWTCalls # <<>> /\ req'[r].reply.sent
              /\ ~IssuedHere(h))
               => /\ Status(req'[r]) = 401
                  /\ GateError(req'[r]) = "Invalid token"]_vars

\* the same token has passed the gate in one request and, later than its
\* expiry, been refused as expired in another
C11_Witness ==
  \E r1, r2 \in Slots :
    /\ DetailAnswered(r1) /\ DetailAnswered(r2)
    /\ req[r1].headers.authorization = req[r2].headers.authorization
    /\ IssuedHere(req[r1].headers.authorization)
    /\ Status(req[r1]) = 200
    /\ GateError(req[r2]) = "Token expired"
    /\ now > TokenOf(req[r1].headers.authorization).iat + SevenDays

-----------------------------------------------------------------------------
(* Properties of the issued session (specification SpecSignIn).            *)

\* the request has been answered with a session cookie
SessionIssued(r) ==
  /\ req[r].pc = "done"
  /\ req[r].reply.sent
  /\ IsSome(req[r].reply.cookie)

SessionToken(r) == Val(req[r].reply.cookie).value

\* C12: every session token carries exactly the id, e-mail and name of the
\* User row its request inserted or looked up, and that row is a row of the
\* user table with the e-mail the request submitted.
C12_TokenCarriesRowIdentity ==
  \A r \in Slots :
    SessionIssued(r) =>
      /\ IsSome(req[r].inserted)
      /\ Val(req[r].inserted) \in UserRows
      /\ Val(req[r].inserted).email = req[r].payload.email
      /\ DOMAIN SessionToken(r).payload = {"id", "email", "name"}
      /\ SessionToken(r).payload.id = Val(req[r].inserted).id
      /\ SessionToken(r).payload.email = Val(req[r].inserted).email
      /\ SessionToken(r).payload.name = Val(req[r].inserted).name
      /\ req[r].reply.payload.data = Val(req[r].inserted)

\* a sign-in has been answered 200 with a session token for the row of its
\* e-mail
C12_Witness ==
  \E r \in Slots :
    /\ SignInAnswered(r)
    /\ Status(req[r]) = 200
    /\ SessionIssued(r)
    /\ SessionToken(r).payload.email = req[r].payload.email
    /\ SessionToken(r).payload.id \in 1..Len(usersTable)

-----------------------------------------------------------------------------
(* Properties of the signing key (specification SpecStart).                *)

\* JWT_SECRET as configured: the variable of the process environment, or
\* else the line of the .env file that start-up loads
ConfiguredSecret ==
  IF IsSome(proc.env.JWT_SECRET) THEN proc.env.JWT_SECRET
  ELSE envFile.JWT_SECRET

DevSecret == <<"d","e","v","-","s","e","c","r","e","t">>

\* C13: once the server listens, the key that signs and verifies tokens is
\* the configured JWT_SECRET, a JWT_SECRET of the .env file included; it is
\* 'dev-secret' only when JWT_SECRET is configured nowhere.
C13_KeyFromConfiguredSecret ==
  proc.pc = "listening" =>
    /\ SECRET.utf8 = (IF IsSome(ConfiguredSecret) THEN Val(ConfiguredSecret)
                      ELSE DevSecret)
    /\ \A r \in Slots :
         SessionIssued(r) => SessionToken(r).key.utf8 = SECRET.utf8

-----------------------------------------------------------------------------
(* Properties of a failed sign-in (specification SpecSignIn).              *)

\* C14: a validated sign-in that fails is answered 422 with the message
\* 'Invalid email or password', whether no User row has the e-mail or the
\* submitted password differs from the stored one.
C14_SameFailureMessage ==
  \A r \in Slots :
    (SignInAnswered(r) /\ Status(req[r]) # 200)
    => /\ Status(req[r]) = 422
       /\ Said(req[r], "Invalid email or password")

-----------------------------------------------------------------------------
(* Properties of send-email (specification Spec).                          *)

\* the number of rows of table t that equal row o
Copies(t, o) == IF o \in BagToSet(t) THEN t[o] ELSE 0

\* the rows of the otp table with this e-mail, counted
OtpRowsOf(email) ==
  LET rows == {o \in BagToSet(otpTable) : o.email = email} IN
  BagCardinality([o \in rows |-> otpTable[o]])

FourDigits(code) == Len(code) = 4 /\ \A i \in 1..4 : code[i] \in Digit

\* C15: the handler step of a validated send-email answers 200, adds exactly
\* one OTP row with the submitted e-mail, a four-digit code and used=false,
\* whatever rows exist already, and changes no other OTP row and no User row.
C15_SendEmailInsertsOneRow ==
  [][\A r \in Slots :
       (req[r].route = "send-email" /\ req[r].pc = "handler"
        /\ req'[r] # req[r])
       => /\ req'[r].pc = "done"
          /\ Status(req'[r]) = 200
          /\ Said(req'[r], "OTP sent successfully")
          /\ usersTable' = usersTable
          /\ \E new \in BagToSet(otpTable') :
               /\ new.email = req[r].payload.email
               /\ FourDigits(new.code)
               /\ new.isUsed = FALSE
               /\ \A o \in BagToSet(otpTable') \cup BagToSet(otpTable) :
                    Copies(otpTable', o) =
                      Copies(otpTable, o) + (IF o = new THEN 1 ELSE 0)]_vars

\* a send-email has been answered 200 for an e-mail that has a User row and
\* now has two OTP rows
C15_Witness ==
  \E r \in Slots :
    /\ req[r].route = "send-email" /\ req[r].pc = "done"
    /\ Status(req[r]) = 200
    /\ OtpRowsOf(req[r].payload.email) >= 2
    /\ UsersWithEmail(usersTable, req[r].payload.email) # {}

-----------------------------------------------------------------------------
(* Properties of one request (specification SpecRequest).                  *)

\* the declared fields of the route's schema for which the body has an issue
FailingFields(route, body) ==
  LET schema == SchemaOf(route)
      fields == SchemaFields(schema)
  IN  {fields[k] : k \in {j \in 1..Len(fields) :
                            FieldIssues(schema, fields[j], body) # <<>>}}

\* the handler of the request has run a step: the request stands after its
\* first step, or carries what a handler step leaves
HandlerRan(q) ==
  \/ q.pc \in (SignUpPcs \cup SignInPcs) \ {"handler"}
  \/ IsSome(q.isEmailExist) \/ IsSome(q.isOtpValid)
  \/ IsSome(q.hashedPassword) \/ IsSome(q.inserted) \/ IsSome(q.thrown)
  \/ (q.reply.sent /\ "message" \in DOMAIN q.reply.payload)

\* C16: a request whose body fails the schema of its route is answered 422
\* with one detail per failing field by the preValidation hook; its handler
\* never runs and neither table changes, then or later.
C16_InvalidBodyShortCircuits ==
  [][\A r \in Slots :
       (req[r].route \in {"sign-in", "sign-up", "send-email"}
        /\ FailingFields(req[r].route, req[r].payload) # {})
       => /\ usersTable' = usersTable
          /\ otpTable' = otpTable
          /\ req[r].pc = "preValidation" =>
               /\ req'[r].pc = "done"
               /\ Status(req'[r]) = 422
               /\ req'[r].reply.payload.error = "Invalid body"
               /\ DOMAIN req'[r].reply.payload.details =
                    FailingFields(req[r].route, req[r].payload)
               /\ ~HandlerRan(req'[r])
          /\ req[r].pc # "preValidation" => req'[r] = req[r]]_vars

\* a send-email with a malformed address has been answered 422 with details
\* and the otp table is as it was at the start
C16_Witness ==
  \E r \in Slots :
    /\ req[r].pc = "done"
    /\ FailingFields(req[r].route, req[r].payload) # {}
    /\ Status(req[r]) = 422
    /\ "details" \in DOMAIN req[r].reply.payload
    /\ req[r].route = "send-email"
    /\ otpTable = EmptyBag

\* the five rules of the claim, on the characters of p
Strong(p) ==
  /\ Len(p) >= 8
  /\ \E i \in 1..Len(p) : p[i] \in Upper
  /\ \E i \in 1..Len(p) : p[i] \in Lower
  /\ \E i \in 1..Len(p) : p[i] \in Digit
  /\ \E i \in 1..Len(p) : p[i] \notin (Upper \cup Lower \cup Digit)

\* the preValidation hook has answered with an issue on the password
PasswordRejected(q) ==
  /\ q.reply.sent
  /\ Status(q) = 422
  /\ "details" \in DOMAIN q.reply.payload
  /\ "password" \in DOMAIN q.reply.payload.details

Validated(q) ==
  /\ q.route \in {"sign-in", "sign-up"}
  /\ q.pc # "preValidation"
  /\ "password" \in DOMAIN q.payload

\* C17: under the sign-in and the sign-up schema alike a password passes
\* exactly when it has at least 8 characters and an uppercase letter, a
\* lowercase letter, a digit and a character that is none of these;
\* 'abc12345' is rejected and 'Abc123!@' passes.
C17_PasswordRules ==
  \A r \in Slots :
    Validated(req[r]) =>
      /\ PasswordRejected(req[r]) <=> ~Strong(req[r].payload.password)
      /\ req[r].payload.password = <<"a","b","c","1","2","3","4","5">>
           => PasswordRejected(req[r])
      /\ req[r].payload.password = <<"A","b","c","1","2","3","!","@">>
           => ~PasswordRejected(req[r])

\* a sign-up whose password has eight characters, a letter of each case and
\* a digit but no special character has been rejected for its password only
C17_Witness ==
  \E r \in Slots :
    /\ Validated(req[r])
    /\ req[r].route = "sign-up"
    /\ Len(req[r].payload.password) = 8
    /\ ~Strong(req[r].payload.password)
    /\ \E i, j, k \in 1..8 :
         /\ req[r].payload.password[i] \in Upper
         /\ req[r].payload.password[j] \in Lower
         /\ req[r].payload.password[k] \in Digit
    /\ PasswordRejected(req[r])
    /\ DOMAIN req[r].reply.payload.details = {"password"}

\* the request failed with error err and has been answered
Failed(q) == q.pc = "done" /\ IsSome(q.thrown)

\* C19: a failure thrown out of a handler is answered with a body that has
\* the one key message; the status is the error's statusCode when that is in
\* 400..599 and 500 otherwise; with status 500 the message is 'Internal
\* server error', with any other status it is the error's own message.
C19_ErrorHandlerSanitizes ==
  \A r \in Slots :
    Failed(req[r]) =>
      LET err == Val(req[r].thrown)
          q == req[r]
          inRange == /\ IsSome(err.statusCode)
                     /\ Val(err.statusCode) \in 400..599
      IN  /\ q.reply.sent
          /\ DOMAIN q.reply.payload = {"message"}
          /\ ~IsSome(q.reply.cookie)
          /\ inRange => Status(q) = Val(err.statusCode)
          /\ ~inRange => Status(q) = 500
          /\ Status(q) = 500 => q.reply.payload.message = "Internal server error"
          /\ Status(q) # 500 => q.reply.payload.message = err.message
          /\ q.reply.payload.message = err.message
               => inRange /\ Val(err.statusCode) # 500

\* a store failure without statusCode has been answered 500 with the fixed
\* text after the handler had passed validation
C19_Witness ==
  \E r \in Slots :
    /\ Failed(req[r])
    /\ ~IsSome(Val(req[r].thrown).statusCode)
    /\ Status(req[r]) = 500
    /\ Said(req[r], "Internal server error")
    /\ FailingFields(req[r].route, req[r].payload) = {}

-----------------------------------------------------------------------------
(* Properties of get-profile (specification SpecAuth).                     *)

RowsWithId(id) == {u \in UserRows : u.id = id}

\* C18: for a request that passed the Auth Gate, getUserDetail answers 200
\* with the User row whose id is the id of the verified payload, or with an
\* empty object when the table has no such row; it sends no error and no
\* row of another id.
C18_ProfileOfTokenId ==
  [][\A r \in Slots :
       (req[r].route = "detail" /\ req[r].pc = "handler"
        /\ req'[r] # req[r])
       => LET id == Val(req[r].user).id
              data == req'[r].reply.payload.data
          IN  /\ req'[r].pc = "done"
              /\ Status(req'[r]) = 200
              /\ Said(req'[r], "User details fetched successfully")
              /\ RowsWithId(id) = {} => DOMAIN data = {}
              /\ RowsWithId(id) # {} => data \in RowsWithId(id)]_vars

\* the token of a user without a row has been answered with the empty
\* object while the table holds the row of another user, and the token of
\* that user has been answered with its row
C18_Witness ==
  \E r1, r2 \in Slots :
    /\ DetailAnswered(r1) /\ DetailAnswered(r2)
    /\ Status(req[r1]) = 200 /\ Status(req[r2]) = 200
    /\ usersTable # <<>>
    /\ RowsWithId(Val(req[r1].user).id) = {}
    /\ DOMAIN req[r1].reply.payload.data = {}
    /\ RowsWithId(Val(req[r2].user).id) # {}
    /\ DOMAIN req[r2].reply.payload.data # {}

-----------------------------------------------------------------------------
(* Properties of the session cookie (specification SpecSignIn).            *)

\* seconds in one day of the clock
SecondsPerDay == 24 * 60 * 60

\* C20: every sign-up and sign-in answered 200 sets a cookie named 'token'
\* that is HTTP-only, SameSite=Lax, of path '/' and max-age 604800 seconds;
\* its value is a token that expires 7 days after it was issued, which is
\* the same span.
C20_CookieAndTokenLifetime ==
  \A r \in Slots :
    (req[r].route \in {"sign-in", "sign-up"} /\ req[r].pc = "done"
     /\ Status(req[r]) = 200)
    => /\ IsSome(req[r].reply.cookie)
       /\ LET c == Val(req[r].reply.cookie) IN
          /\ c.name = "token"
          /\ c.httpOnly = TRUE
          /\ c.sameSite = "lax"
          /\ c.path = "/"
          /\ c.maxAge = 604800
          /\ c.value.exp = c.value.iat + 7
          /\ (c.value.exp - c.value.iat) * SecondsPerDay = c.maxAge

\* a sign-in has been answered 200 'Login successful' with the cookie
C20_Witness ==
  \E r \in Slots :
    /\ SignInAnswered(r)
    /\ Said(req[r], "Login successful")
    /\ IsSome(req[r].reply.cookie)
    /\ Val(req[r].reply.cookie).value.iat = now

-----------------------------------------------------------------------------
(* Properties of the generated code (specification SpecOtp).               *)

DigitValue(ch) ==
  CHOOSE d \in 0..9 : <<"0","1","2","3","4","5","6","7","8","9">>[d + 1] = ch

\* the number a string of four decimal digits denotes
NumericValue(code) ==
  1000 * DigitValue(code[1]) + 100 * DigitValue(code[2])
    + 10 * DigitValue(code[3]) + DigitValue(code[4])

\* C21: every generated code is a string of exactly 4 decimal digits whose
\* value lies in 0..9999, and every value of 0..9999 is the result of a
\* draw: the draw n yields the four digits of n, zero-padded on the left.
C21_OtpFourDigits ==
  /\ \A o \in BagToSet(otpTable) :
       /\ Len(o.code) = 4
       /\ \A i \in 1..4 : o.code[i] \in Digit
       /\ NumericValue(o.code) \in 0..9999
  /\ otpTable = EmptyBag =>
       \A n \in 0..9999 :
         LET code == generate4DigitOTP(n) IN
         /\ Len(code) = 4
         /\ \A i \in 1..4 : code[i] \in Digit
         /\ NumericValue(code) = n

\* the draw 7 has been stored as the code 0007
C21_Witness ==
  \E o \in BagToSet(otpTable) :
    /\ o.code = <<"0","0","0","7">>
    /\ NumericValue(o.code) = 7
    /\ o.isUsed = FALSE

-----------------------------------------------------------------------------
(* Properties of the response body (specification SpecSignIn).             *)

-----------------------------------------------------------------------------
(* scripts/docker.sh: one run of the script on an argument list.           *)

MaxArgs == 3

\* words a caller types
ShellWords == {"dev", "prod", "staging", "start", "logs", ""}

ArgLists == UNION {[1..n -> ShellWords] : n \in 0..MaxArgs}

\* $i: the i-th positional parameter, empty when there is none
Positional(argv, i) == IF i <= Len(argv) THEN argv[i] ELSE ""

\* ${value:-word}: word when value is unset or empty
DefaultTo(value, word) == IF value = "" THEN word ELSE value

\* "${@:i}": the positional parameters from the i-th on
ArgsFrom(argv, i) == IF i > Len(argv) THEN <<>> ELSE SubSeq(argv, i, Len(argv))

\* the variable cleaENV is assigned nowhere in the script: its value is what
\* the caller's environment exports, empty when it exports nothing
InheritedCleaENV == {"", "prod"}

NotExeced == [file |-> "none", args |-> <<>>]

InitDocker ==
  /\ usersTable = <<>>
  /\ otpTable = EmptyBag
  /\ req = [r \in Slots |-> Idle]
  /\ now = 0
  /\ SECRET = SecretOf(None)
  /\ proc = [pc |-> "listening", env |-> [JWT_SECRET |-> None]]
  /\ envFile = [JWT_SECRET |-> None]
  /\ compose = NoServices
  /\ \E argv \in ArgLists, inherited \in InheritedCleaENV :
       sh = [script |-> "docker.sh", pc |-> "parse", argv |-> argv,
             cleaENV |-> inherited, ENV |-> "", COMMAND |-> "",
             out |-> "", status |-> None, exec |-> NotExeced]

\* ENV=${1:-dev}; COMMAND=${2:-help}
parseArguments ==
  /\ sh.script = "docker.sh"
  /\ sh.pc = "parse"
  /\ sh' = [sh EXCEPT !.ENV = DefaultTo(Positional(sh.argv, 1), "dev"),
                      !.COMMAND = DefaultTo(Positional(sh.argv, 2), "help"),
                      !.pc = "validate"]
  /\ UNCHANGED <<usersTable, otpTable, req, now, SECRET, proc, envFile, compose>>

\* the test of the "Validate environment" step
InvalidEnvironment == sh.ENV # "dev" /\ sh.cleaENV # "prod"

validateEnvironment ==
  /\ sh.script = "docker.sh"
  /\ sh.pc = "validate"
  /\ sh' = IF InvalidEnvironment
           THEN [sh EXCEPT !.out = "Error: Invalid environment",
                           !.status = Some(1),
                           !.pc = "exited"]
           ELSE [sh EXCEPT !.pc = "route"]
  /\ UNCHANGED <<usersTable, otpTable, req, now, SECRET, proc, envFile, compose>>

\* exec replaces the shell with the chosen script
routeToScript ==
  /\ sh.script = "docker.sh"
  /\ sh.pc = "route"
  /\ sh' = [sh EXCEPT
        !.exec = [file |-> IF sh.ENV = "dev" THEN "docker-dev.sh" ELSE "docker-prod.sh",
                  args |-> <<sh.COMMAND>> \o ArgsFrom(sh.argv, 3)],
        !.pc = "replaced"]
  /\ UNCHANGED <<usersTable, otpTable, req, now, SECRET, proc, envFile, compose>>

NextDocker ==
  \/ parseArguments
  \/ validateEnvironment
  \/ routeToScript

SpecDocker == InitDocker /\ [][NextDocker]_vars

DockerEnded == sh.script = "docker.sh" /\ sh.pc \in {"exited", "replaced"}

\* what the run was asked for: the first argument, dev when it is missing
AskedEnv == DefaultTo(Positional(sh.argv, 1), "dev")

AskedCommand == DefaultTo(Positional(sh.argv, 2), "help")

\* C23: docker.sh accepts env dev (the default) and env prod: dev executes
\* docker-dev.sh and prod executes docker-prod.sh, each with the command and
\* the remaining arguments; any other env prints an error and exits 1 with
\* neither script run.
C23_EnvRouting ==
  DockerEnded =>
    LET passed == <<AskedCommand>> \o ArgsFrom(sh.argv, 3) IN
    CASE AskedEnv = "dev" ->
           sh.exec = [file |-> "docker-dev.sh", args |-> passed] /\ sh.status = None
      [] AskedEnv = "prod" ->
           sh.exec = [file |-> "docker-prod.sh", args |-> passed] /\ sh.status = None
      [] OTHER ->
           sh.exec = NotExeced /\ sh.status = Some(1) /\ sh.out # ""

-----------------------------------------------------------------------------
(* scripts/docker-prod.sh start: one run of the function.                  *)

MAX_WAIT == 60

\* the STATUS column docker-compose ps prints for a running service, by the
\* health docker reports for it
PsStatus(health) ==
  CASE health = "starting"  -> <<"U", "p", " ", "(", "h", "e", "a", "l", "t", "h", ":", " ", "s", "t", "a", "r", "t", "i", "n", "g", ")">>
    [] health = "healthy"   -> <<"U", "p", " ", "(", "h", "e", "a", "l", "t", "h", "y", ")">>
    [] health = "unhealthy" -> <<"U", "p", " ", "(", "u", "n", "h", "e", "a", "l", "t", "h", "y", ")">>

\* grep -q pattern: some part of the line is the pattern
grep(pattern, line) ==
  \E i \in 1..(Len(line) - Len(pattern) + 1) :
    SubSeq(line, i, i + Len(pattern) - 1) = pattern

Healthy == <<"h", "e", "a", "l", "t", "h", "y">>

InitProd ==
  /\ usersTable = <<>>
  /\ otpTable = EmptyBag
  /\ req = [r \in Slots |-> Idle]
  /\ now = 0
  /\ SECRET = SecretOf(None)
  /\ proc = [pc |-> "listening", env |-> [JWT_SECRET |-> None]]
  /\ envFile = [JWT_SECRET |-> None]
  /\ compose = NoServices
  /\ sh = [script |-> "docker-prod.sh", pc |-> "up-postgres", COUNTER |-> 0,
           matched |-> None, status |-> None]

\* up -d postgres, then MAX_WAIT=60 and COUNTER=0; under set -e a failing
\* docker-compose ends the script
upPostgres ==
  /\ sh.script = "docker-prod.sh"
  /\ sh.pc = "up-postgres"
  /\ \/ /\ compose' = [compose EXCEPT !.postgres = "starting"]
        /\ sh' = [sh EXCEPT !.COUNTER = 0, !.pc = "wait"]
     \/ /\ compose' = compose
        /\ sh' = [sh EXCEPT !.status = Some(1), !.pc = "exited"]
  /\ UNCHANGED <<usersTable, otpTable, req, now, SECRET, proc, envFile>>

\* docker runs the service's health check: a container that is up is
\* reported starting, then healthy or unhealthy as its checks pass or fail
healthCheck ==
  /\ compose.postgres \in {"starting", "healthy", "unhealthy"}
  /\ \E h \in {"healthy", "unhealthy"} :
       /\ h # compose.postgres
       /\ compose' = [compose EXCEPT !.postgres = h]
  /\ UNCHANGED <<usersTable, otpTable, req, now, SECRET, proc, envFile, sh>>

\* one turn of while [ $COUNTER -lt $MAX_WAIT ]: ps postgres | grep -q "healthy"
\* leaves the loop, anything else sleeps a second and counts
waitLoop ==
  /\ sh.script = "docker-prod.sh"
  /\ sh.pc = "wait"
  /\ LET line == PsStatus(compose.postgres) IN
     sh' = IF sh.COUNTER < MAX_WAIT
           THEN IF grep(Healthy, line)
                THEN [sh EXCEPT !.matched = Some(line), !.pc = "after"]
                ELSE [sh EXCEPT !.COUNTER = sh.COUNTER + 1]
           ELSE [sh EXCEPT !.pc = "after"]
  /\ UNCHANGED <<usersTable, otpTable, req, now, SECRET, proc, envFile, compose>>

\* if [ $COUNTER -eq $MAX_WAIT ] then exit 1, else up -d backend
afterLoop ==
  /\ sh.script = "docker-prod.sh"
  /\ sh.pc = "after"
  /\ IF sh.COUNTER = MAX_WAIT
     THEN /\ sh' = [sh EXCEPT !.status = Some(1), !.pc = "exited"]
          /\ compose' = compose
     ELSE /\ sh' = [sh EXCEPT !.pc = "started"]
          /\ compose' = [compose EXCEPT !.backend = "up"]
  /\ UNCHANGED <<usersTable, otpTable, req, now, SECRET, proc, envFile>>

NextProd ==
  \/ upPostgres
  \/ healthCheck
  \/ waitLoop
  \/ afterLoop

SpecProd == InitProd /\ [][NextProd]_vars

\* the backend is up only if a poll saw postgres healthy
BackendAfterHealthy ==
  compose.backend = "up" => sh.matched = Some(PsStatus("healthy"))

\* sixty polls without a match end the script with status 1 and no backend
TimeoutExits ==
  (sh.script = "docker-prod.sh" /\ sh.COUNTER = MAX_WAIT)
  => /\ compose.backend = "absent"
     /\ sh.matched = None
     /\ sh.pc \in {"wait", "after", "exited"}
     /\ sh.pc = "exited" => sh.status = Some(1)

\* the loop is left after at most sixty polls
LoopBounded ==
  sh.script = "docker-prod.sh" => sh.COUNTER \in 0..MAX_WAIT

\* C24: docker-prod.sh start brings the backend up only after postgres has
\* been observed healthy; sixty one-second polls without that end the script
\* with status 1 and no backend; the wait loop ends within sixty polls.
C24_StartWaitsForHealthy ==
  /\ BackendAfterHealthy
  /\ TimeoutExits
  /\ LoopBounded

-----------------------------------------------------------------------------
(* Properties of the request body the handler reads (specification         *)
(* SpecRequest).                                                            *)

\* C25: the otp value the sign-up handler compares with the stored codes is
\* the otp value the client submitted: the preValidation step does not drop
\* or alter the otp field.
C25_OtpSurvivesValidation ==
  \A r \in Slots :
    (req[r].route = "sign-up" /\ req[r].pc \in SignUpPcs)
    => Field(req[r].body, "otp") = Field(req[r].payload, "otp")

Declared(route) ==
  {SchemaFields(SchemaOf(route))[k] : k \in 1..Len(SchemaFields(SchemaOf(route)))}

HandlerRuns(q) ==
  /\ q.route \in {"sign-up", "sign-in", "send-email"}
  /\ q.pc \in SignUpPcs \cup SignInPcs

\* C26: when a body passes its schema the handler runs on the parsed value
\* in place of the body: exactly the fields the schema declares, each with
\* the value submitted for it, which satisfies the schema's rules.
C26_HandlerSeesParsedBody ==
  \A r \in Slots :
    HandlerRuns(req[r])
    => /\ DOMAIN req[r].body = Declared(req[r].route)
       /\ \A f \in Declared(req[r].route) :
            /\ f \in DOMAIN req[r].payload
            /\ req[r].body[f] = req[r].payload[f]
            /\ FieldIssues(SchemaOf(req[r].route), f, req[r].payload) = <<>>

\* a handler runs on a body that has lost a key the client submitted
C26_Witness ==
  \E r \in Slots :
    /\ HandlerRuns(req[r])
    /\ req[r].pc = "handler"
    /\ DOMAIN req[r].payload # DOMAIN req[r].body
    /\ DOMAIN req[r].body = Declared(req[r].route)

-----------------------------------------------------------------------------
(* Properties of the OTP rows across a sign-up (specification Spec).       *)

\* request r, a sign-up that passed validation, takes this step
SignUpSteps(r) ==
  /\ req[r].route = "sign-up"
  /\ req[r].pc \in SignUpPcs
  /\ req'[r] # req[r]

\* this step changes no OTP row of another e-mail
OtherOtpRowsKept(email) ==
  \A o \in BagToSet(otpTable) \cup BagToSet(otpTable') :
    o.email # email => Copies(otpTable', o) = Copies(otpTable, o)

\* this step changes no User row that was there before it
UserRowsKept ==
  /\ Len(usersTable') >= Len(usersTable)
  /\ \A i \in 1..Len(usersTable) : usersTable'[i] = usersTable[i]

UnusedRows(email) == {o \in BagToSet(otpTable) : o.email = email /\ ~o.isUsed}

\* C28: a new code for e does not invalidate the earlier ones: while e has no
\* User row every OTP row of e is unused, however many were issued, and a
\* sign-up for e that submits the code of any one of them is accepted at the
\* OTP check; an unused code stays unused until a sign-up for e succeeds.
C28_EveryUnusedCodeRedeemable ==
  /\ [](\A o \in BagToSet(otpTable) :
         UsersWithEmail(usersTable, o.email) = {} => ~o.isUsed)
  /\ [][\A r \in Slots :
          /\ \A o \in BagToSet(otpTable) :
               (~o.isUsed /\ Copies(otpTable', o) < Copies(otpTable, o))
               => \E q \in Slots : /\ req[q].route = "sign-up"
                                   /\ req[q].pc = "markUsed"
                                   /\ req[q].payload.email = o.email
                                   /\ req'[q] # req[q]
          /\ (/\ SignUpSteps(r)
              /\ req[r].pc = "otpLookup"
              /\ UsersWithEmail(usersTable, req[r].payload.email) = {}
              /\ \E o \in UnusedRows(req[r].payload.email) :
                   Field(req[r].payload, "otp") = Some(o.code))
             => IsSome(req'[r].isOtpValid)]_vars

\* the validator has answered request r with its 422
Refused(r) ==
  /\ req[r].pc = "done"
  /\ Status(req[r]) = 422
  /\ "details" \in DOMAIN req[r].reply.payload

\* C29: the details of a 422 validation response have exactly one entry per
\* failing field, and the entry is the message of the first issue reported
\* for that field: later issues of the field do not overwrite it.
C29_FirstIssuePerPath ==
  \A r \in Slots :
    Refused(r)
    => LET q == req[r]
           details == q.reply.payload.details
       IN  /\ DOMAIN details = FailingFields(q.route, q.payload)
           /\ \A f \in DOMAIN details :
                details[f] = FieldIssues(SchemaOf(q.route), f, q.payload)[1]

\* a refused password that breaks more than one rule, the last of them not
\* being the first: its entry is the message of the first
C29_Witness ==
  \E r \in Slots :
    /\ Refused(r)
    /\ "password" \in DOMAIN req[r].payload
    /\ LET ms == PasswordIssues(req[r].payload.password) IN
       /\ Len(ms) >= 2
       /\ ms[1] # ms[Len(ms)]
       /\ req[r].reply.payload.details.password = ms[1]

\* the sign-up r has been answered, and not with 200
SignUpRefused(r) ==
  /\ req[r].route = "sign-up"
  /\ req[r].pc = "done"
  /\ req[r].reply.sent
  /\ Status(req[r]) # 200

\* C30: a sign-up that ends with a response other than 200 (a validation
\* failure, an existing e-mail, an invalid OTP, or a failure thrown at a step
\* and answered by the error handler) has inserted no User row and sets no
\* token cookie; the User table changes in no step of a sign-up other than
\* the one that records its inserted row.
C30_RefusedSignUpLeavesNoTrace ==
  /\ [](\A r \in Slots :
          SignUpRefused(r)
          => /\ ~IsSome(req[r].inserted)
             /\ req[r].reply.cookie = None)
  /\ [][\A r \in Slots :
          (req[r].route = "sign-up" /\ req'[r] # req[r]
           /\ req'[r].inserted = req[r].inserted)
          => usersTable' = usersTable]_vars

\* a sign-up that passed validation has failed at a store call and has been
\* answered 500, with the User table as it was and no cookie
C30_Witness ==
  \E r \in Slots :
    /\ SignUpRefused(r)
    /\ IsSome(req[r].thrown)
    /\ Status(req[r]) = 500
    /\ ~IsSome(req[r].inserted)
    /\ req[r].reply.cookie = None
    /\ usersTable \in SeedUsers

====
